---- MODULE Spec2Model ----
(***************************************************************************)
(* A model of the object model and evaluator of echo-star                  *)
(* (src/obj_model.py): the atoms Number, Boolean, Null and String, the     *)
(* expression nodes BinOp, IfNode, Assignment and CallNode, the functions  *)
(* and the environment Env with its constants.                             *)
(*                                                                         *)
(* Host (Python) values are tagged with their host type, because the code  *)
(* relies on the host's typing: Number stores float(value), str * float    *)
(* raises TypeError, 1.0 == True holds, None < None raises TypeError.      *)
(*   float  [ty |-> "float", f |-> n]   (n an integer: only integer-valued *)
(*                                       floats of magnitude < 10^16)      *)
(*   int    [ty |-> "int",   i |-> n]                                      *)
(*   bool   [ty |-> "bool",  b |-> TRUE]                                   *)
(*   str    [ty |-> "str",   s |-> <<"a", "b">>]  (a sequence of chars)    *)
(*   None   [ty |-> "NoneType"]                                            *)
(* An identifier (a key of Env) is the sequence of its leading "CONST_"    *)
(* prefixes followed by the rest of the name: <<"CONST_", "x">> is the     *)
(* key CONST_x.  A dict is the sequence of its items in insertion order.   *)
(***************************************************************************)
EXTENDS Integers, Sequences, FiniteSets, TLC

VARIABLES ENV, stdout, visited, fn, pre, last

vars == <<ENV, stdout, visited, fn, pre, last>>

(***************************************************************************)
(* Bounds of the model.                                                    *)
(***************************************************************************)
\* The host's limit on nested calls (sys.getrecursionlimit(), 1000 by default).
RecursionLimit == 8
\* The longest raw text of a String literal drawn as an input.
MaxStrLen == 4
\* The largest Number literal drawn as an input.
MaxNum == 11
\* The longest Env.constants list the model follows (it grows on every
\* write through a CONST_ key).
MaxConstants == 7

(***************************************************************************)
(* Host values and host operations.                                        *)
(***************************************************************************)
PyFloat(n) == [ty |-> "float", f |-> n]
PyInt(n) == [ty |-> "int", i |-> n]
PyBool(b) == [ty |-> "bool", b |-> b]
PyStr(s) == [ty |-> "str", s |-> s]
PyNone == [ty |-> "NoneType"]

PyIsNum(v) == v.ty \in {"float", "int", "bool"}

\* The number a numeric host value stands for (bool is a subclass of int).
PyNum(v) ==
  CASE v.ty = "float" -> v.f
    [] v.ty = "int" -> v.i
    [] v.ty = "bool" -> IF v.b THEN 1 ELSE 0

\* bool(v)
PyTruthy(v) ==
  CASE v.ty = "NoneType" -> FALSE
    [] v.ty = "str" -> v.s # <<>>
    [] OTHER -> PyNum(v) # 0

\* a == b: numbers compare by value across float, int and bool; values of
\* unrelated types are unequal, without error.
PyEq(a, b) ==
  CASE PyIsNum(a) /\ PyIsNum(b) -> PyNum(a) = PyNum(b)
    [] a.ty = "str" /\ b.ty = "str" -> a.s = b.s
    [] a.ty = "NoneType" /\ b.ty = "NoneType" -> TRUE
    [] OTHER -> FALSE

\* The code point order of the characters the model uses.
Ord(c) ==
  CASE c = "\"" -> 34 [] c = "'" -> 39 [] c = "-" -> 45 [] c = "." -> 46
    [] c = "0" -> 48 [] c = "1" -> 49 [] c = "2" -> 50 [] c = "3" -> 51
    [] c = "4" -> 52 [] c = "5" -> 53 [] c = "6" -> 54 [] c = "7" -> 55
    [] c = "8" -> 56 [] c = "9" -> 57 [] c = "a" -> 97 [] c = "b" -> 98
    [] c = "{" -> 123 [] c = "}" -> 125 [] OTHER -> 0

RECURSIVE StrLess(_, _)
\* s < t on str: lexicographic by code point.
StrLess(s, t) ==
  IF t = <<>> THEN FALSE
  ELSE IF s = <<>> THEN TRUE
  ELSE IF Head(s) = Head(t) THEN StrLess(Tail(s), Tail(t))
  ELSE Ord(Head(s)) < Ord(Head(t))

\* Whether a < b, a <= b, ... is defined by the host (else it raises TypeError).
PyOrdered(a, b) ==
  \/ PyIsNum(a) /\ PyIsNum(b)
  \/ a.ty = "str" /\ b.ty = "str"

\* a < b where the host defines it.
PyLt(a, b) ==
  IF a.ty = "str" THEN StrLess(a.s, b.s) ELSE PyNum(a) < PyNum(b)

RECURSIVE lstrip(_, _)
lstrip(s, chars) ==
  IF s # <<>> /\ Head(s) \in chars THEN lstrip(Tail(s), chars) ELSE s

RECURSIVE rstrip(_, _)
rstrip(s, chars) ==
  IF s # <<>> /\ s[Len(s)] \in chars
  THEN rstrip(SubSeq(s, 1, Len(s) - 1), chars)
  ELSE s

\* str.strip(chars): drops every leading and every trailing character that
\* is in chars.
strip(s, chars) == rstrip(lstrip(s, chars), chars)

RECURSIVE replace(_, _, _)
\* str.replace(old, new), old not empty: every occurrence, left to right.
replace(s, old, new) ==
  IF Len(s) < Len(old) THEN s
  ELSE IF SubSeq(s, 1, Len(old)) = old
  THEN new \o replace(SubSeq(s, Len(old) + 1, Len(s)), old, new)
  ELSE <<Head(s)>> \o replace(Tail(s), old, new)

RECURSIVE repeat(_, _)
\* s * n for an int n (n <= 0 gives the empty string).
repeat(s, n) == IF n <= 0 THEN <<>> ELSE s \o repeat(s, n - 1)

DigitChar(k) ==
  CASE k = 0 -> "0" [] k = 1 -> "1" [] k = 2 -> "2" [] k = 3 -> "3"
    [] k = 4 -> "4" [] k = 5 -> "5" [] k = 6 -> "6" [] k = 7 -> "7"
    [] k = 8 -> "8" [] k = 9 -> "9"

RECURSIVE Digits(_)
\* The decimal numeral of a natural number.
Digits(n) ==
  IF n < 10 THEN <<DigitChar(n)>>
  ELSE Digits(n \div 10) \o <<DigitChar(n % 10)>>

\* str(v) of an integer-valued float: the numeral followed by ".0".
FloatStr(n) ==
  (IF n < 0 THEN <<"-">> ELSE <<>>) \o Digits(IF n < 0 THEN -n ELSE n)
    \o <<".", "0">>

\* str(v)
PyStrOf(v) ==
  CASE v.ty = "str" -> v.s
    [] v.ty = "float" -> FloatStr(v.f)
    [] v.ty = "int" ->
         (IF v.i < 0 THEN <<"-">> ELSE <<>>)
           \o Digits(IF v.i < 0 THEN -v.i ELSE v.i)
    [] v.ty = "bool" ->
         IF v.b THEN <<"T", "r", "u", "e">> ELSE <<"F", "a", "l", "s", "e">>
    [] v.ty = "NoneType" -> <<"N", "o", "n", "e">>

\* float(v) of a numeric host value.
float(v) == PyFloat(PyNum(v))

(***************************************************************************)
(* The atoms.                                                              *)
(***************************************************************************)
Number(value) == [t |-> "Number", value |-> float(value)]

Boolean(value) == [t |-> "Boolean", value |-> PyBool(PyTruthy(value))]

Null == [t |-> "Null", value |-> PyNone]

String(value) ==
  [t |-> "String", value |-> PyStr(strip(PyStrOf(value), {"\"", "'"}))]

\* Number.repr: every float of the model is integer-valued (value % 1 == 0),
\* so the first arm of the conditional expression is the one taken.
NumberRepr(self) == strip(PyStrOf(self.value), {".", "0"})

\* str.lower() on the characters the model uses.
lower(s) ==
  [i \in 1..Len(s) |->
     CASE s[i] = "T" -> "t" [] s[i] = "F" -> "f" [] s[i] = "N" -> "n"
       [] OTHER -> s[i]]

BooleanRepr(self) == lower(PyStrOf(self.value))

NullRepr(self) == <<"n", "u", "l", "l">>

BaseObjectRepr(self) == PyStrOf(self.value)

(***************************************************************************)
(* Env: a dict (items in insertion order) with the list of its constants.  *)
(***************************************************************************)
InSeq(x, seq) == \E i \in 1..Len(seq) : seq[i] = x

DictHas(d, k) == \E i \in 1..Len(d) : d[i].k = k

DictGet(d, k) == d[CHOOSE i \in 1..Len(d) : d[i].k = k].v

\* dict.__setitem__: a key already present keeps its place.
DictSet(d, k, v) ==
  IF DictHas(d, k)
  THEN [i \in 1..Len(d) |-> IF d[i].k = k THEN [k |-> k, v |-> v] ELSE d[i]]
  ELSE Append(d, [k |-> k, v |-> v])

startswith(key) == key # <<>> /\ Head(key) = "CONST_"

removeprefix(key) == IF startswith(key) THEN Tail(key) ELSE key

ConstantMessage ==
  <<"Y", "o", "u", " ", "c", "a", "n", "'", "t", " ", "c", "h", "a", "n",
    "g", "e", " ", "a", " ", "c", "o", "n", "s", "t", "a", "n", "t", "!">>

\* Env.__setitem__: the Env after the write and the lines it printed.
Env_setitem(self, key, value) ==
  IF InSeq(key, self.constants)
  THEN [env |-> self, out |-> <<ConstantMessage>>]
  ELSE [env |->
          [d |-> DictSet(self.d, removeprefix(key), value),
           constants |->
             IF startswith(key)
             THEN Append(self.constants, removeprefix(key))
             ELSE self.constants],
        out |-> <<>>]

RECURSIVE Env_fill(_, _, _)
\* The loop of Env.__init__ over the items of kwargs, from item i on.
Env_fill(acc, kwargs, i) ==
  IF i > Len(kwargs) THEN acc
  ELSE LET w == Env_setitem(acc.env, kwargs[i].k, kwargs[i].v)
       IN Env_fill([env |-> w.env, out |-> acc.out \o w.out], kwargs, i + 1)

\* Env(**kwargs)
Env_init(kwargs) ==
  Env_fill([env |-> [d |-> <<>>, constants |-> <<>>], out |-> <<>>], kwargs, 1)

Item(key, value) == [k |-> key, v |-> value]

PrintFn == [t |-> "Print"]
InputFn == [t |-> "Input"]
RandIntFn == [t |-> "RandInt"]

\* The root frame, as the module builds it on import.
RootEnv ==
  Env_init(<<Item(<<"CONST_", "print">>, PrintFn),
             Item(<<"CONST_", "input">>, InputFn),
             Item(<<"CONST_", "rand">>, RandIntFn),
             Item(<<"CONST_", "true">>, Boolean(PyBool(TRUE))),
             Item(<<"CONST_", "false">>, Boolean(PyBool(FALSE))),
             Item(<<"CONST_", "null">>, Null)>>).env

\* ENV[-1]
Top(env) == env[Len(env)]

(***************************************************************************)
(* The evaluator.  An evaluation takes the interpreter state                *)
(*   st = [ENV |-> the frames, stdout |-> the lines printed,               *)
(*         visited |-> the expression nodes reduced so far, in order]      *)
(* and the depth d of the host's call stack, and gives                     *)
(*   [s |-> the state after, val |-> the value returned, err |-> "none"]   *)
(* or, when the host raises, err names the exception ("abort" for the      *)
(* abort collaborator) and the evaluation stops there.                     *)
(***************************************************************************)
NoValue == [t |-> "NoValue"]

Ret(st, v) == [s |-> st, val |-> v, err |-> "none"]

Raise(st, e) == [s |-> st, val |-> NoValue, err |-> e]

\* abort(message) of the common module: halts the run with the message.
abort(st, left, right) ==
  [s |-> st, val |-> [t |-> "Message", left |-> left, right |-> right],
   err |-> "abort"]

AtomClasses == {"Number", "Boolean", "Null", "String"}

SpecialExpression == {"BinOp", "IfNode", "Assignment", "CallNode"}

ArithFuncs == {"add", "sub", "mul", "div", "mod"}

CompareFuncs == {"lt", "gt", "le", "ge", "eq", "ne"}

LogicFuncs == {"_and", "_or"}

OP_TO_FUNC_MAP(op) ==
  CASE op = "+" -> "add" [] op = "-" -> "sub" [] op = "*" -> "mul"
    [] op = "/" -> "div" [] op = "%" -> "mod" [] op = "==" -> "eq"
    [] op = "!=" -> "ne" [] op = "<" -> "lt" [] op = ">" -> "gt"
    [] op = "<=" -> "le" [] op = ">=" -> "ge" [] op = "&&" -> "_and"
    [] op = "||" -> "_or"

BinOp(op, right, left) ==
  [t |-> "BinOp", op |-> op, right |-> right, left |-> left]

IfNode(condition, true_block, false_block) ==
  [t |-> "IfNode", condition |-> condition, true_block |-> true_block,
   false_block |-> false_block]

Assignment(name, value) == [t |-> "Assignment", name |-> name, value |-> value]

CallNode(expr) == [t |-> "CallNode", expr |-> expr]

\* The host's comparison of two payloads, for the comparison named f.
PyCompare(f, a, b) ==
  CASE f = "eq" -> PyEq(a, b)
    [] f = "ne" -> ~PyEq(a, b)
    [] f = "lt" -> PyLt(a, b)
    [] f = "gt" -> PyLt(b, a)
    [] f = "le" -> ~PyLt(b, a)
    [] f = "ge" -> ~PyLt(a, b)

\* The host's arithmetic on two floats (integer-valued, see the header).
PyArith(f, a, b) ==
  CASE f = "add" -> PyFloat(a.f + b.f)
    [] f = "sub" -> PyFloat(a.f - b.f)
    [] f = "mul" -> PyFloat(a.f * b.f)

\* ENV[-1][key] = value
SetTop(st, key, value) ==
  LET w == Env_setitem(Top(st.ENV), key, value)
  IN [st EXCEPT !.ENV = [st.ENV EXCEPT ![Len(st.ENV)] = w.env],
                !.stdout = st.stdout \o w.out]

RECURSIVE visit(_, _, _)
RECURSIVE method(_, _, _, _, _)
RECURSIVE repr(_, _, _)

\* BaseObject.add, sub, mul, div, mod: self.visit().f(other.visit())
BaseObjectArith(f, self, other, st, d) ==
  LET r1 == visit(self, st, d + 1)
  IN IF r1.err # "none" THEN r1
     ELSE LET r2 == visit(other, r1.s, d + 1)
          IN IF r2.err # "none" THEN r2
             ELSE method(f, r1.val, r2.val, r2.s, d + 1)

\* BaseObject.lt, gt, le, ge, eq, ne:
\* Boolean(self.visit().value <op> other.visit().value)
BaseObjectCompare(f, self, other, st, d) ==
  LET r1 == visit(self, st, d + 1)
  IN IF r1.err # "none" THEN r1
     ELSE IF r1.val.t \notin AtomClasses THEN Raise(r1.s, "AttributeError")
     ELSE LET r2 == visit(other, r1.s, d + 1)
          IN IF r2.err # "none" THEN r2
             ELSE IF r2.val.t \notin AtomClasses
             THEN Raise(r2.s, "AttributeError")
             ELSE IF f \notin {"eq", "ne"}
                     /\ ~PyOrdered(r1.val.value, r2.val.value)
             THEN Raise(r2.s, "TypeError")
             ELSE Ret(r2.s,
                      Boolean(PyBool(PyCompare(f, r1.val.value, r2.val.value))))

\* An _and and _or that reduce both operands before they combine them.
BaseObjectLogic_strict(f, self, other, st, d) ==
  LET r1 == visit(self, st, d + 1)
  IN IF r1.err # "none" THEN r1
     ELSE IF r1.val.t \notin AtomClasses THEN Raise(r1.s, "AttributeError")
     ELSE LET r2 == visit(other, r1.s, d + 1)
          IN IF r2.err # "none" THEN r2
             ELSE IF r2.val.t \notin AtomClasses
             THEN Raise(r2.s, "AttributeError")
             ELSE Ret(r2.s,
                      Boolean(PyBool(
                        IF f = "_and"
                        THEN PyTruthy(r1.val.value) /\ PyTruthy(r2.val.value)
                        ELSE PyTruthy(r1.val.value)
                               \/ PyTruthy(r2.val.value))))

\* BaseObject._and, _or: the host's and / or between the two
\* Boolean(x.visit().value).value; the host evaluates the right operand of
\* and only when the left one is true, of or only when it is false.
BaseObjectLogic(f, self, other, st, d) ==
  LET r1 == visit(self, st, d + 1)
  IN IF r1.err # "none" THEN r1
     ELSE IF r1.val.t \notin AtomClasses THEN Raise(r1.s, "AttributeError")
     ELSE LET a == Boolean(r1.val.value).value
          IN IF (f = "_and" /\ ~a.b) \/ (f = "_or" /\ a.b)
             THEN Ret(r1.s, Boolean(a))
             ELSE LET r2 == visit(other, r1.s, d + 1)
                  IN IF r2.err # "none" THEN r2
                     ELSE IF r2.val.t \notin AtomClasses
                     THEN Raise(r2.s, "AttributeError")
                     ELSE Ret(r2.s, Boolean(Boolean(r2.val.value).value))

\* Number.add, sub, mul (div and mod of two Numbers leave the integers and
\* are not modelled).
NumberArith(f, self, other, st, d) ==
  IF other.t = "Number"
  THEN Ret(st, Number(PyArith(f, self.value, other.value)))
  ELSE IF other.t \in SpecialExpression
  THEN LET r == visit(other, st, d + 1)
       IN IF r.err # "none" THEN r ELSE method(f, self, r.val, r.s, d + 1)
  ELSE abort(st, "Number", other.t)

StringAdd(self, other, st, d) ==
  IF other.t \in SpecialExpression
  THEN LET r == visit(other, st, d + 1)
       IN IF r.err # "none" THEN r
          ELSE method("add", self, r.val, r.s, d + 1)
  ELSE LET r == repr(other, st, d + 1)
       IN IF r.err # "none" THEN r
          ELSE Ret(r.s, String(PyStr(self.value.s \o r.val)))

\* String.mul: the payload of a Number is a float, and the host's str * float
\* raises TypeError.
StringMul(self, other, st, d) ==
  IF other.t = "Number"
  THEN IF other.value.ty = "float"
       THEN Raise(st, "TypeError")
       ELSE Ret(st, String(PyStr(repeat(self.value.s, PyNum(other.value)))))
  ELSE IF other.t \in SpecialExpression
  THEN LET r == visit(other, st, d + 1)
       IN IF r.err # "none" THEN r
          ELSE method("mul", self, r.val, r.s, d + 1)
  ELSE abort(st, "String", other.t)

RECURSIVE replace_once(_, _, _)
\* s with its first occurrence of old replaced by new: str.replace(old, new, 1).
replace_once(s, old, new) ==
  IF Len(s) < Len(old) THEN s
  ELSE IF SubSeq(s, 1, Len(old)) = old
  THEN new \o SubSeq(s, Len(old) + 1, Len(s))
  ELSE <<Head(s)>> \o replace_once(Tail(s), old, new)

\* A String.mod that fills the first placeholder only.
StringMod_first(self, other, st, d) ==
  IF other.t \in SpecialExpression
  THEN LET r == visit(other, st, d + 1)
       IN IF r.err # "none" THEN r
          ELSE method("mod", self, r.val, r.s, d + 1)
  ELSE LET r == repr(other, st, d + 1)
       IN IF r.err # "none" THEN r
          ELSE Ret(r.s,
                   String(PyStr(replace_once(self.value.s, <<"{", "}">>,
                                             r.val))))

StringMod(self, other, st, d) ==
  IF other.t \in SpecialExpression
  THEN LET r == visit(other, st, d + 1)
       IN IF r.err # "none" THEN r
          ELSE method("mod", self, r.val, r.s, d + 1)
  ELSE LET r == repr(other, st, d + 1)
       IN IF r.err # "none" THEN r
          ELSE Ret(r.s,
                   String(PyStr(replace(self.value.s, <<"{", "}">>, r.val))))

\* x.repr() of an atom, a BinOp or a function: the str it returns is the val
\* of the result.
repr(self, st, d) ==
  IF d > RecursionLimit THEN Raise(st, "RecursionError")
  ELSE CASE self.t = "Number" -> Ret(st, NumberRepr(self))
         [] self.t = "Boolean" -> Ret(st, BooleanRepr(self))
         [] self.t = "Null" -> Ret(st, NullRepr(self))
         [] self.t = "String" -> Ret(st, BaseObjectRepr(self))
         [] self.t = "BinOp" ->
              LET r == visit(self, st, d + 1)
              IN IF r.err # "none" THEN r ELSE repr(r.val, r.s, d + 1)
         [] self.t = "UserDefinedFunction" ->
              Ret(st, <<"<function ", self.t, ">">>)
         [] self.t \in {"Print", "Input", "RandInt"} ->
              Ret(st, <<"<built-in function ", self.t, ">">>)

\* x.f(other): the method the class of x (or, failing that, BaseObject)
\* defines under the name f.
method(f, self, other, st, d) ==
  IF d > RecursionLimit THEN Raise(st, "RecursionError")
  ELSE CASE self.t = "Number" /\ f \in {"add", "sub", "mul"} ->
              NumberArith(f, self, other, st, d)
         [] self.t = "String" /\ f = "add" -> StringAdd(self, other, st, d)
         [] self.t = "String" /\ f = "mul" -> StringMul(self, other, st, d)
         [] self.t = "String" /\ f = "mod" -> StringMod(self, other, st, d)
         [] self.t = "String" /\ f \in {"sub", "div"} ->
              BaseObjectArith(f, self, other, st, d)
         [] self.t \notin {"Number", "String"} /\ f \in ArithFuncs ->
              BaseObjectArith(f, self, other, st, d)
         [] f \in CompareFuncs -> BaseObjectCompare(f, self, other, st, d)
         [] f \in LogicFuncs -> BaseObjectLogic(f, self, other, st, d)

BinOpVisit(self, st, d) ==
  method(OP_TO_FUNC_MAP(self.op), self.right, self.left, st, d + 1)

\* An IfNode that reduces both blocks before it selects one.
IfNodeVisit_eager(self, st, d) ==
  LET c == visit(self.condition, st, d + 1)
  IN IF c.err # "none" THEN c
     ELSE IF c.val.t \notin AtomClasses THEN Raise(c.s, "AttributeError")
     ELSE LET tb == visit(self.true_block, c.s, d + 1)
          IN IF tb.err # "none" THEN tb
             ELSE LET fb == visit(self.false_block, tb.s, d + 1)
                  IN IF fb.err # "none" THEN fb
                     ELSE IF PyEq(c.val.value, PyBool(TRUE))
                     THEN Ret(fb.s, tb.val)
                     ELSE fb

IfNodeVisit(self, st, d) ==
  LET c == visit(self.condition, st, d + 1)
  IN IF c.err # "none" THEN c
     ELSE IF c.val.t \notin AtomClasses THEN Raise(c.s, "AttributeError")
     ELSE IF PyEq(c.val.value, PyBool(TRUE))
     THEN visit(self.true_block, c.s, d + 1)
     ELSE visit(self.false_block, c.s, d + 1)

AssignmentVisit(self, st, d) ==
  LET r == visit(self.value, st, d + 1)
  IN IF r.err # "none" THEN r
     ELSE LET s2 == SetTop(r.s, self.name, r.val)
          IN IF DictHas(Top(s2.ENV).d, self.name)
             THEN Ret(s2, DictGet(Top(s2.ENV).d, self.name))
             ELSE Raise(s2, "KeyError")

CallNodeVisit(self, st, d) == visit(self.expr, st, d + 1)

\* x.visit(); the reduction of an expression node is recorded in visited.
visit(self, st, d) ==
  IF d > RecursionLimit THEN Raise(st, "RecursionError")
  ELSE IF self.t \in SpecialExpression
  THEN LET s1 == [st EXCEPT !.visited = Append(st.visited, self)]
       IN CASE self.t = "BinOp" -> BinOpVisit(self, s1, d)
            [] self.t = "IfNode" -> IfNodeVisit(self, s1, d)
            [] self.t = "Assignment" -> AssignmentVisit(self, s1, d)
            [] self.t = "CallNode" -> CallNodeVisit(self, s1, d)
  ELSE Ret(st, self)

(***************************************************************************)
(* Functions.                                                              *)
(***************************************************************************)
RECURSIVE ParamItems(_, _)
\* {arg: Null() for arg in args}: one item for each distinct name, in order.
ParamItems(args, i) ==
  IF i > Len(args) THEN <<>>
  ELSE IF \E j \in 1..(i - 1) : args[j] = args[i]
  THEN ParamItems(args, i + 1)
  ELSE <<Item(args[i], Null)>> \o ParamItems(args, i + 1)

\* UserDefinedFunction(*args, expr=expr): Env(**ENV[-1], **{...}); the host
\* raises TypeError for a call that is given a keyword twice.
UserDefinedFunction(args, expr, st) ==
  LET top == Top(st.ENV).d
  IN IF \E i \in 1..Len(args) : DictHas(top, args[i])
     THEN Raise(st, "TypeError")
     ELSE LET e == Env_init(top \o ParamItems(args, 1))
          IN Ret([st EXCEPT !.stdout = st.stdout \o e.out],
                 [t |-> "UserDefinedFunction", env |-> e.env, args |-> args,
                  expr |-> expr])

\* UserDefinedFunction.call(**kwargs): the function after the writes to its
\* env, the lines printed, and the CallNode returned.
UserDefinedFunctionCall(self, kwargs) ==
  LET e == Env_fill([env |-> self.env, out |-> <<>>], kwargs, 1)
  IN [self |-> [self EXCEPT !.env = e.env], out |-> e.out,
      val |-> CallNode(self.expr)]

\* Print.call(arg): prints arg.visit().repr() and returns that str.
PrintCall(arg, st, d) ==
  LET r == visit(arg, st, d + 1)
  IN IF r.err # "none" THEN r
     ELSE LET p == repr(r.val, r.s, d + 1)
          IN IF p.err # "none" THEN p
             ELSE Ret([p.s EXCEPT !.stdout = p.s.stdout \o <<p.val>>], p.val)

(***************************************************************************)
(* The state machine.  ENV is the list of frames; stdout and visited are   *)
(* the lines printed and the nodes reduced by the last operation; fn is    *)
(* the function constructed last; pre holds ENV and fn as they were before *)
(* the last operation and last says what that operation was and how it     *)
(* ended.                                                                  *)
(***************************************************************************)
StateOf(env) == [ENV |-> env, stdout |-> <<>>, visited |-> <<>>]

Start == StateOf(ENV)

Init ==
  /\ ENV = <<RootEnv>>
  /\ stdout = <<>>
  /\ visited = <<>>
  /\ fn = NoValue
  /\ pre = [ENV |-> <<RootEnv>>, fn |-> NoValue]
  /\ last = [op |-> "init"]

\* The state after an evaluation r, recorded as the operation op on arg.
Finish(op, arg, r) ==
  /\ Len(Top(r.s.ENV).constants) <= MaxConstants
  /\ ENV' = r.s.ENV
  /\ stdout' = r.s.stdout
  /\ visited' = r.s.visited
  /\ pre' = [ENV |-> ENV, fn |-> fn]
  /\ last' = [op |-> op, arg |-> arg, val |-> r.val, err |-> r.err]

x == <<"x">>
y == <<"y">>
true == <<"true">>
CONST(name) == <<"CONST_">> \o name

\* The Numbers Number(0) .. Number(MaxNum), built from int literals.
Numbers == {Number(PyInt(n)) : n \in 0..MaxNum}

(***************************************************************************)
(* Writes to the top frame, and closures over it.                          *)
(***************************************************************************)
WriteKeys == {x, CONST(x), true, CONST(true)}

WriteValues == {Number(PyInt(1)), Number(PyInt(2))}

ParamLists == {<<>>, <<y>>, <<x>>, <<y, y>>}

\* ENV[-1][key] = value, by the driver.
EnvSet(key, value) ==
  /\ \E r \in {Ret(SetTop(Start, key, value), NoValue)} :
       Finish("Env.__setitem__", [key |-> key, value |-> value], r)
  /\ UNCHANGED fn

\* Assignment(name, value).visit()
Assign(name, value) ==
  /\ \E r \in {visit(Assignment(name, value), Start, 0)} :
       Finish("Assignment.visit", Assignment(name, value), r)
  /\ UNCHANGED fn

\* fn = UserDefinedFunction(*args, expr=expr)
Define(args, expr) ==
  \E r \in {UserDefinedFunction(args, expr, Start)} :
    /\ Finish("UserDefinedFunction", [args |-> args, expr |-> expr], r)
    /\ fn' = IF r.err = "none" THEN r.val ELSE fn

\* fn.call(**kwargs)
Call(kwargs) ==
  /\ fn # NoValue
  /\ \E c \in {UserDefinedFunctionCall(fn, kwargs)} :
        /\ Len(c.self.env.constants) <= MaxConstants
        /\ fn' = c.self
        /\ Finish("UserDefinedFunction.call", kwargs,
                  Ret([Start EXCEPT !.stdout = c.out], c.val))

NextEnv ==
  \/ \E key \in WriteKeys, value \in WriteValues : EnvSet(key, value)
  \/ \E name \in WriteKeys, value \in WriteValues : Assign(name, value)
  \/ \E args \in ParamLists : Define(args, Number(PyInt(1)))
  \/ \E k \in {x, y}, value \in WriteValues : Call(<<Item(k, value)>>)

SpecEnv == Init /\ [][NextEnv]_vars

(***************************************************************************)
(* Reductions with side effects: conditionals, && and ||, print.           *)
(***************************************************************************)
Conditions ==
  {Boolean(PyBool(TRUE)), Boolean(PyBool(FALSE)), Number(PyInt(1)),
   Number(PyInt(2)), Null, PrintFn,
   BinOp("<", Number(PyInt(1)), Number(PyInt(2))),
   BinOp("<", Null, Null),
   Assignment(x, Number(PyInt(1))),
   Assignment(CONST(y), Boolean(PyBool(TRUE)))}

Blocks ==
  {Assignment(x, Number(PyInt(1))), Assignment(y, Number(PyInt(2))),
   CallNode(Assignment(x, Number(PyInt(1)))),
   BinOp("-", Boolean(PyBool(TRUE)), Assignment(y, Number(PyInt(2))))}

LogicOperands ==
  {Boolean(PyBool(TRUE)), Number(PyInt(0)), Null, String(PyStr(<<"a">>)),
   BinOp("==", Number(PyInt(1)), Number(PyInt(2))),
   Assignment(x, Number(PyInt(1))), Assignment(y, Number(PyInt(2)))}

\* IfNode(condition, true_block, false_block).visit()
VisitIfNode(condition, true_block, false_block) ==
  /\ \E r \in {visit(IfNode(condition, true_block, false_block), Start, 0)} :
       Finish("IfNode.visit", IfNode(condition, true_block, false_block), r)
  /\ UNCHANGED fn

\* BinOp(op, right, left).visit() for && and ||
VisitLogic(op, right, left) ==
  /\ \E r \in {visit(BinOp(op, right, left), Start, 0)} :
       Finish("BinOp.visit", BinOp(op, right, left), r)
  /\ UNCHANGED fn

\* Print().call(arg)
CallPrint(arg) ==
  /\ \E r \in {PrintCall(arg, Start, 0)} : Finish("Print.call", arg, r)
  /\ UNCHANGED fn

NextEval ==
  \/ \E c \in Conditions, tb \in Blocks, fb \in Blocks : VisitIfNode(c, tb, fb)
  \/ \E op \in {"&&", "||"}, a \in LogicOperands, b \in LogicOperands :
       VisitLogic(op, a, b)
  \/ \E arg \in Blocks \cup {Number(PyInt(10)), PrintFn} : CallPrint(arg)

SpecEval == Init /\ [][NextEval]_vars

(***************************************************************************)
(* The operators on atoms: one call x.f(other) for each drawn input.       *)
(***************************************************************************)
TextChars == {"a", "{", "}", "'"}

Texts == UNION {[1..n -> TextChars] : n \in 0..MaxStrLen}

\* The Strings String(text), text a raw literal of at most MaxStrLen characters.
Strings == {String(PyStr(text)) : text \in Texts}

\* Those of at most two characters.
ShortStrings == {str \in Strings : Len(str.value.s) <= 2}

Booleans == {Boolean(PyBool(b)) : b \in BOOLEAN}

Pending(f, self, other) ==
  [op |-> "pending", f |-> f, self |-> self, other |-> other]

\* What a String is added to, multiplied by or formatted with.
StringOperands ==
  Numbers \cup Booleans
    \cup {Null, String(PyStr(<<"a">>)), String(PyStr(<<"{", "}">>)),
          CallNode(Number(PyInt(2))),
          BinOp("+", Number(PyInt(9)), Number(PyInt(1))), PrintFn}

\* What a String is formatted with.
ModOperands ==
  {Number(PyInt(1)), Number(PyInt(10)), Boolean(PyBool(TRUE)), Null,
   String(PyStr(<<"a">>)), String(PyStr(<<"{", "}">>)),
   CallNode(Number(PyInt(2))), PrintFn}

\* The operands of the operators no class of atoms defines.
ArithOperands ==
  Booleans
    \cup {Null, Number(PyInt(1)), String(PyStr(<<"a">>)),
          BinOp("+", Number(PyInt(1)), Number(PyInt(1)))}

CompareOperands ==
  Booleans
    \cup {Null, Number(PyInt(0)), Number(PyInt(1)), Number(PyInt(2)),
          String(PyStr(<<>>)), String(PyStr(<<"a">>)),
          String(PyStr(<<"b">>)), String(PyStr(<<"a", "a">>)),
          BinOp("+", Number(PyInt(1)), Number(PyInt(1)))}

Calls ==
  {Pending(f, s, o) : f \in {"add", "mul"}, s \in ShortStrings,
                      o \in StringOperands}
    \cup {Pending("mod", s, o) : s \in Strings, o \in ModOperands}
    \cup {Pending(f, s, o) : f \in ArithFuncs, s \in Booleans \cup {Null},
                             o \in ArithOperands}
    \cup {Pending(f, s, o) : f \in {"sub", "div"},
                             s \in {String(PyStr(<<"a">>))},
                             o \in ArithOperands}
    \cup {Pending(f, s, o) : f \in {"add", "sub", "mul"},
                             s \in {Number(PyInt(1))}, o \in ArithOperands}
    \cup {Pending(f, s, o) : f \in CompareFuncs, s \in CompareOperands,
                             o \in CompareOperands}

InitOps ==
  /\ ENV = <<RootEnv>>
  /\ stdout = <<>>
  /\ visited = <<>>
  /\ fn = NoValue
  /\ pre = [ENV |-> <<RootEnv>>, fn |-> NoValue]
  /\ last \in Calls

\* self.f(other), as the class of self resolves f.
Apply ==
  /\ \E r \in {method(last.f, last.self, last.other, Start, 0)} :
       Finish(last.f, [self |-> last.self, other |-> last.other], r)
  /\ UNCHANGED fn

\* String.add, String.mul, String.mod
StringCall ==
  /\ last.op = "pending"
  /\ last.self.t = "String" /\ last.f \in {"add", "mul", "mod"}
  /\ Apply

\* Number.add, Number.sub, Number.mul
NumberCall ==
  /\ last.op = "pending"
  /\ last.self.t = "Number" /\ last.f \in {"add", "sub", "mul"}
  /\ Apply

\* BaseObject.add, sub, mul, div, mod, on a class that does not define it
BaseObjectCall ==
  /\ last.op = "pending"
  /\ last.f \in ArithFuncs
  /\ \/ last.self.t \in {"Boolean", "Null"}
     \/ last.self.t = "String" /\ last.f \in {"sub", "div"}
  /\ Apply

\* BaseObject.lt, gt, le, ge, eq, ne
CompareCall ==
  /\ last.op = "pending"
  /\ last.f \in CompareFuncs
  /\ Apply

NextOps == StringCall \/ NumberCall \/ BaseObjectCall \/ CompareCall

SpecOps == InitOps /\ [][NextOps]_vars

(***************************************************************************)
(* The properties.                                                         *)
(***************************************************************************)
Writes == {"Env.__setitem__", "Assignment.visit"}

\* The binding of name is the same in the Envs e1 and e2.
SameBinding(e1, e2, name) ==
  /\ DictHas(e1.d, name) <=> DictHas(e2.d, name)
  /\ DictHas(e1.d, name) => DictGet(e1.d, name) = DictGet(e2.d, name)

\* The bindings of an Env, as a set of items.
Bindings(e) == {e.d[i] : i \in 1..Len(e.d)}

RECURSIVE Targets(_)
\* The names the Assignments of an expression write to.
Targets(node) ==
  CASE node.t = "Assignment" -> {removeprefix(node.name)} \cup Targets(node.value)
    [] node.t = "BinOp" -> Targets(node.right) \cup Targets(node.left)
    [] node.t = "CallNode" -> Targets(node.expr)
    [] node.t = "IfNode" ->
         Targets(node.condition) \cup Targets(node.true_block)
           \cup Targets(node.false_block)
    [] OTHER -> {}

\* C1: once a name is locked in ENV[-1], every later write to it, plain or
\* through the CONST_ form, is rejected without an error and a lookup of the
\* name still returns the value of the locking write.
C1_ConstantProtection ==
  last.op \in Writes =>
    LET key == IF last.op = "Assignment.visit" THEN last.arg.name
               ELSE last.arg.key
    IN /\ \A i \in 1..Len(Top(pre.ENV).constants) :
            SameBinding(Top(ENV), Top(pre.ENV), Top(pre.ENV).constants[i])
       /\ InSeq(removeprefix(key), Top(pre.ENV).constants) =>
            last.err = "none" /\ Top(ENV).d = Top(pre.ENV).d

\* C3: Assignment(name, e).visit(), for a name not locked in ENV[-1] (plain,
\* or declared through the CONST_ form), ends without error, returns the
\* value e reduced to, and that value is bound to the name in ENV[-1].
C3_AssignmentReturnsWritten ==
  (/\ last.op = "Assignment.visit"
   /\ ~InSeq(removeprefix(last.arg.name), Top(pre.ENV).constants)) =>
    /\ last.err = "none"
    /\ last.val = last.arg.value
    /\ DictHas(Top(ENV).d, removeprefix(last.arg.name))
    /\ DictGet(Top(ENV).d, removeprefix(last.arg.name)) = last.val

\* C4: constructing a UserDefinedFunction in ENV[-1] gives a function whose
\* env holds exactly the bindings of ENV[-1] plus Null for each parameter,
\* and no later write to ENV[-1] changes that env.
C4_ClosureIsolation ==
  /\ last.op = "UserDefinedFunction" =>
       /\ last.err = "none"
       /\ fn = last.val
       /\ Bindings(fn.env) =
            {it \in Bindings(Top(pre.ENV)) : ~InSeq(it.k, last.arg.args)}
              \cup {Item(last.arg.args[i], Null) :
                      i \in 1..Len(last.arg.args)}
  /\ last.op \in Writes => fn = pre.fn

\* The state in which the node visited last reduces its first operand: the
\* node itself has been entered.
Entered == [StateOf(pre.ENV) EXCEPT !.visited = <<last.arg>>]

\* C2: one visit of IfNode(condition, true_block, false_block) reduces the
\* condition and then exactly the block the condition selects (true_block when
\* the condition's payload equals True), once; the other block is not
\* reduced, and no name only it assigns is written.
C2_ConditionalLaziness ==
  last.op = "IfNode.visit" =>
    LET n == last.arg
        c == visit(n.condition, Entered, 1)
    IN IF c.err # "none" \/ c.val.t \notin AtomClasses
       THEN /\ last.err # "none"
            /\ ENV = c.s.ENV /\ visited = c.s.visited
            /\ \A k \in (Targets(n.true_block) \cup Targets(n.false_block))
                          \ Targets(n.condition) :
                 SameBinding(Top(ENV), Top(pre.ENV), k)
       ELSE LET taken == PyEq(c.val.value, PyBool(TRUE))
                sel == IF taken THEN n.true_block ELSE n.false_block
                oth == IF taken THEN n.false_block ELSE n.true_block
                b == visit(sel, c.s, 1)
            IN /\ ENV = b.s.ENV /\ stdout = b.s.stdout
               /\ visited = b.s.visited
               /\ last.val = b.val /\ last.err = b.err
               /\ \A k \in Targets(oth)
                             \ (Targets(n.condition) \cup Targets(sel)) :
                    /\ SameBinding(Top(ENV), Top(pre.ENV), k)
                    /\ \A i \in 1..Len(visited) :
                         visited[i].t = "Assignment" =>
                           removeprefix(visited[i].name) # k

\* C2, witnessed: the condition is true, the true block has assigned x and
\* the false block, an Assignment to y, has left y unbound.
C2_Witness ==
  /\ last.op = "IfNode.visit"
  /\ last.err = "none"
  /\ last.arg.condition = Boolean(PyBool(TRUE))
  /\ last.arg.true_block = Assignment(x, Number(PyInt(1)))
  /\ last.arg.false_block = Assignment(y, Number(PyInt(2)))
  /\ last.val = Number(PyInt(1))
  /\ DictHas(Top(ENV).d, x)
  /\ ~DictHas(Top(ENV).d, y)
  /\ visited = <<last.arg, last.arg.true_block>>

\* C5: && and || reduce both operands whatever the first one's truth value,
\* so an Assignment given as the second operand is always carried out, and
\* the result is the Boolean and / or of the two operands' truthiness.
C5_NoShortCircuit ==
  (last.op = "BinOp.visit" /\ last.arg.op \in {"&&", "||"}) =>
    LET first == last.arg.right
        second == last.arg.left
        r1 == visit(first, StateOf(pre.ENV), 2)
        r2 == visit(second, r1.s, 2)
    IN (r1.err = "none" /\ r2.err = "none") =>
         /\ last.err = "none"
         /\ second.t \in SpecialExpression => InSeq(second, visited)
         /\ \A k \in Targets(second) : DictHas(Top(ENV).d, k)
         /\ last.val =
              Boolean(PyBool(
                IF last.arg.op = "&&"
                THEN PyTruthy(r1.val.value) /\ PyTruthy(r2.val.value)
                ELSE PyTruthy(r1.val.value) \/ PyTruthy(r2.val.value)))

\* C5, as the code has it: && reduces its second operand only when the first
\* is truthy and || only when the first is falsy; a second operand that is
\* skipped is not reduced and writes nothing; the result is the Boolean and /
\* or of the operands' truthiness.
C5_ShortCircuit ==
  (last.op = "BinOp.visit" /\ last.arg.op \in {"&&", "||"}) =>
    LET first == last.arg.right
        second == last.arg.left
        r1 == visit(first, Entered, 2)
        t1 == PyTruthy(r1.val.value)
        r2 == visit(second, r1.s, 2)
    IN r1.err = "none" =>
         IF (last.arg.op = "&&" /\ ~t1) \/ (last.arg.op = "||" /\ t1)
         THEN /\ last.err = "none"
              /\ last.val = Boolean(PyBool(t1))
              /\ ENV = r1.s.ENV /\ visited = r1.s.visited
              /\ \A k \in Targets(second) \ Targets(first) :
                   SameBinding(Top(ENV), Top(pre.ENV), k)
         ELSE /\ last.err = r2.err
              /\ ENV = r2.s.ENV /\ visited = r2.s.visited
              /\ r2.err = "none" =>
                   last.val =
                     Boolean(PyBool(
                       IF last.arg.op = "&&"
                       THEN t1 /\ PyTruthy(r2.val.value)
                       ELSE t1 \/ PyTruthy(r2.val.value)))

\* C5, witnessed: 0 && (x = 1) has given false and has left x unbound.
C5_Witness ==
  /\ last.op = "BinOp.visit"
  /\ last.arg = BinOp("&&", Number(PyInt(0)), Assignment(x, Number(PyInt(1))))
  /\ last.err = "none"
  /\ last.val = Boolean(PyBool(FALSE))
  /\ ~DictHas(Top(ENV).d, x)
  /\ visited = <<last.arg>>

RECURSIVE Pieces(_, _, _)
\* The pieces of s between its occurrences of sep, cur being the piece begun.
Pieces(s, sep, cur) ==
  IF Len(s) < Len(sep) THEN <<cur \o s>>
  ELSE IF SubSeq(s, 1, Len(sep)) = sep
  THEN <<cur>> \o Pieces(SubSeq(s, Len(sep) + 1, Len(s)), sep, <<>>)
  ELSE Pieces(Tail(s), sep, Append(cur, Head(s)))

RECURSIVE Joined(_, _)
\* The pieces, with mid between each two.
Joined(pieces, mid) ==
  IF Len(pieces) = 1 THEN pieces[1]
  ELSE pieces[1] \o mid \o Joined(Tail(pieces), mid)

\* C6, as the code has it: String % X is the String with every {} replaced
\* by the repr of the value X reduces to (unchanged when it has none).
C6_EveryPlaceholder ==
  (last.op = "mod" /\ last.arg.self.t = "String") =>
    LET o == visit(last.arg.other, Start, 0)
    IN /\ last.err = "none"
       /\ last.val =
            String(PyStr(Joined(Pieces(last.arg.self.value.s, <<"{", "}">>,
                                       <<>>),
                                repr(o.val, Start, 0).val)))

\* C6, witnessed: "{}{}" % "a" has given "aa".
C6_Witness ==
  /\ last.op = "mod"
  /\ last.arg.self = String(PyStr(<<"{", "}", "{", "}">>))
  /\ last.arg.other = String(PyStr(<<"a">>))
  /\ last.err = "none"
  /\ last.val = String(PyStr(<<"a", "a">>))

\* C6: String % X replaces only the first {} of the String by the repr of X
\* and leaves every later {} in place.
C6_FirstPlaceholderOnly ==
  (/\ last.op = "mod"
   /\ last.arg.self.t = "String"
   /\ last.arg.other.t \in AtomClasses) =>
    /\ last.err = "none"
    /\ last.val =
         String(PyStr(replace_once(last.arg.self.value.s, <<"{", "}">>,
                                   repr(last.arg.other, Start, 0).val)))

\* C7: String * Number, for a Number built from a non-negative integer (or an
\* expression that reduces to one), ends without error and returns the
\* String repeated that many times.
C7_Repetition ==
  (last.op = "mul" /\ last.arg.self.t = "String") =>
    LET o == visit(last.arg.other, Start, 0)
    IN (o.err = "none" /\ o.val.t = "Number") =>
         /\ last.err = "none"
         /\ last.val =
              String(PyStr(repeat(last.arg.self.value.s, o.val.value.f)))

\* C8: add, sub, mul, div, mod on a Boolean or a Null, and sub, div on a
\* String, end by aborting with a TypeMismatch that names both kinds.
C8_TypeMismatchAbort ==
  (/\ last.op \in ArithFuncs
   /\ \/ last.arg.self.t \in {"Boolean", "Null"}
      \/ last.arg.self.t = "String" /\ last.op \in {"sub", "div"}) =>
    /\ last.err = "abort"
    /\ last.val.left = last.arg.self.t

\* C9: a comparison of operands that reduce to different kinds ends in an
\* error and returns no Boolean; of operands of the same kind it returns the
\* Boolean of comparing the payloads.
C9_CrossKindComparison ==
  last.op \in CompareFuncs =>
    LET a == visit(last.arg.self, Start, 0).val
        b == visit(last.arg.other, Start, 0).val
    IN IF a.t # b.t
       THEN last.err \in {"abort", "TypeError"}
       ELSE /\ last.err = "none"
            /\ last.val.t = "Boolean"
            /\ (last.op \in {"eq", "ne"} \/ PyOrdered(a.value, b.value)) =>
                 last.val = Boolean(PyBool(PyCompare(last.op, a.value, b.value)))

\* C10: String + Number, for a String without quote characters and an
\* integer-valued Number, is the String followed by the full decimal numeral
\* of the Number.
C10_CanonicalNumeral ==
  (/\ last.op = "add"
   /\ last.arg.self.t = "String"
   /\ last.arg.other.t = "Number"
   /\ \A i \in 1..Len(last.arg.self.value.s) :
        last.arg.self.value.s[i] \notin {"'", "\""}) =>
    /\ last.err = "none"
    /\ last.val.t = "String"
    /\ last.val.value.s =
         last.arg.self.value.s \o Digits(last.arg.other.value.f)

====
